---- MODULE Spec2Model ----
(***************************************************************************)
(* Model of HubNavigationApplicationCustomizer: the SharePoint Framework   *)
(* application customizer that marks hub-navigation links as "current      *)
(* site" / "other site".                                                   *)
(*                                                                         *)
(* Strings are sequences of one-character strings, so that split, indexOf, *)
(* toLowerCase and replace are computed and not assumed.                   *)
(***************************************************************************)
EXTENDS Integers, Sequences, FiniteSets, TLC

VARIABLES
    exUrl,        \* SpecExtract: the argument of _extractSiteName
    exSuffix,     \* SpecExtract: text appended to exUrl for the second call
    exResult,     \* SpecExtract: _extractSiteName(exUrl)
    exResult2,    \* SpecExtract: _extractSiteName(exUrl + exSuffix)
    exDone,       \* SpecExtract: both calls have returned
    absoluteUrl,  \* this.context.pageContext.web.absoluteUrl
    links,        \* the host's navigation anchors: href, container, marker classes
    passes,       \* SpecPass: number of _applyHighlighting calls made so far
    beforeFirst,  \* SpecPass: links as they were before the first call
    afterFirst,   \* SpecPass: links as the first call left them
    pc,           \* where onInit / _loadConfig stands: which await it is suspended on
    config,       \* this._config
    loadOutcome,  \* how the last _loadConfig call ended
    configBefore, \* this._config when the last _loadConfig call started
    lastBody,     \* what response.json() produced in the last _loadConfig call
    loads,        \* SpecConfig: number of _loadConfig calls started
    styleElement, \* this._styleElement: 0 for null, else the element's identity
    headStyles,   \* the <style> elements of this controller attached to document.head
    stylesCreated, \* number of <style> elements created so far
    build,        \* which source file is the class: "main" or "part_000"
    disposed,     \* onDispose has run
    observer,     \* this._observer: 0 for null, 1 for the MutationObserver
    connected,    \* the MutationObservers observing document.body: "dom", "mega"
    throttleTimer, \* this._throttleTimer: 0 for null, else a timer id
    timers,       \* the pending setTimeout callbacks: id and kind
    subscribed,   \* a handler has been added to navigatedEvent
    initSteps,    \* the startup steps onInit ran after the load, in order
    winState,     \* the last throttle window: "none", "open", "fired", "cancelled"
    winTimer,     \* id of the timer that opened the last throttle window
    winBatches,   \* mutation batches delivered to the observer in that window
    winPasses,    \* highlighting passes run by throttle timers of that window
    initPromise,  \* the promise onInit returned: "none", "pending", "fulfilled", "rejected"
    disposeFaults, \* the host calls that threw inside onDispose
    passFailed,   \* the pass of the last throttle callback threw
    otherWrites   \* writes to the host DOM other than marker classes and the <style>

exVars == <<exUrl, exSuffix, exResult, exResult2, exDone>>

domVars == <<absoluteUrl, links>>

passVars == <<passes, beforeFirst, afterFirst>>

cfgVars == <<pc, config, loadOutcome, configBefore, lastBody, loads>>

styleVars == <<styleElement, headStyles, stylesCreated>>

winVars == <<winState, winTimer, winBatches, winPasses>>

hostVars == <<initPromise, disposeFaults, passFailed, otherWrites>>

lifeVars == <<build, disposed, observer, connected, throttleTimer, timers,
              subscribed, initSteps, winVars, hostVars>>

vars == <<exUrl, exSuffix, exResult, exResult2, exDone,
          absoluteUrl, links, passes, beforeFirst, afterFirst,
          pc, config, loadOutcome, configBefore, lastBody, loads,
          styleElement, headStyles, stylesCreated,
          build, disposed, observer, connected, throttleTimer, timers,
          subscribed, initSteps, winState, winTimer, winBatches, winPasses,
          initPromise, disposeFaults, passFailed, otherWrites>>

-----------------------------------------------------------------------------
(* Strings *)

\* The literal '/sites/' of url.split('/sites/') and href.indexOf('/sites/').
SITES == <<"/", "s", "i", "t", "e", "s", "/">>

SLASH == <<"/">>

\* String.prototype.toLowerCase on one character of the model's alphabet.
LowerChar(c) ==
    CASE c = "S" -> "s"
      [] c = "I" -> "i"
      [] c = "T" -> "t"
      [] c = "E" -> "e"
      [] c = "A" -> "a"
      [] c = "B" -> "b"
      [] OTHER -> c

toLowerCase(s) == [k \in 1..Len(s) |-> LowerChar(s[k])]

\* String.prototype.indexOf(sep, from), 1-based; 0 when sep does not occur.
IndexOfFrom(s, sep, from) ==
    LET hits == {k \in from..(Len(s) - Len(sep) + 1) :
                    SubSeq(s, k, k + Len(sep) - 1) = sep}
    IN IF hits = {} THEN 0
       ELSE CHOOSE k \in hits : \A j \in hits : k <= j

indexOf(s, sep) == IndexOfFrom(s, sep, 1)

\* String.prototype.split(sep) for a non-empty separator: the pieces between
\* the successive non-overlapping occurrences of sep, scanned left to right.
RECURSIVE SplitFrom(_, _, _)
SplitFrom(s, sep, p) ==
    LET q == IndexOfFrom(s, sep, p)
    IN IF q = 0 THEN <<SubSeq(s, p, Len(s))>>
       ELSE <<SubSeq(s, p, q - 1)>> \o SplitFrom(s, sep, q + Len(sep))

split(s, sep) == SplitFrom(s, sep, 1)

\* Mutant of _extractSiteName: resolves against the last '/sites/'.
ExtractSiteNameLast(url) ==
    LET parts == split(url, SITES)
    IN IF Len(parts) >= 2 /\ parts[Len(parts)] # <<>>
       THEN split(parts[Len(parts)], SLASH)[1]
       ELSE <<>>

\* _extractSiteName: url.split('/sites/')[1], then its .split('/')[0]; ''
\* when the second piece is undefined or empty.
extractSiteName(url) ==
    LET parts == split(url, SITES)
    IN IF Len(parts) >= 2 /\ parts[2] # <<>>
       THEN split(parts[2], SLASH)[1]
       ELSE <<>>

-----------------------------------------------------------------------------
(* The host DOM and the highlighting pass *)

\* A navigation anchor of the host page.  container tells which ancestor it
\* sits under: "hubNav" (an ancestor matched by one of the first eight
\* NAV_SELECTORS), "nav" (only a <nav> or role=navigation ancestor, so that
\* the selector also needs href*="/sites/") or "none".  cur and oth are the
\* classes hub-nav-current-site and hub-nav-other-site.
Link(h, c, cur, oth) == [href |-> h, container |-> c, cur |-> cur, oth |-> oth]

\* document.querySelectorAll(NAV_SELECTORS.join(', ')) selects the link.
IsCandidate(link) ==
    \/ link.container = "hubNav"
    \/ link.container = "nav" /\ indexOf(link.href, SITES) > 0

\* absoluteUrl.replace(/\/$/, ''): one trailing slash is dropped.
StripTrailingSlash(s) ==
    IF Len(s) > 0 /\ s[Len(s)] = "/" THEN SubSeq(s, 1, Len(s) - 1) ELSE s

\* Mutant of HighlightLink: the classList.remove call is missing.
HighlightLinkNoRemove(link, currentSiteName) ==
    LET linkSiteName == extractSiteName(toLowerCase(link.href))
    IN IF linkSiteName # <<>> /\ linkSiteName = currentSiteName
       THEN [link EXCEPT !.cur = TRUE]
       ELSE IF indexOf(link.href, SITES) > 0
            THEN [link EXCEPT !.oth = TRUE]
            ELSE link

\* Mutant of HighlightLink: classList.toggle in place of remove-then-add.
HighlightLinkToggle(link, currentSiteName) ==
    LET linkSiteName == extractSiteName(toLowerCase(link.href))
    IN IF linkSiteName # <<>> /\ linkSiteName = currentSiteName
       THEN [link EXCEPT !.cur = ~link.cur, !.oth = FALSE]
       ELSE IF indexOf(link.href, SITES) > 0
            THEN [link EXCEPT !.cur = FALSE, !.oth = ~link.oth]
            ELSE [link EXCEPT !.cur = FALSE, !.oth = FALSE]

\* The body of allLinks.forEach: both marker classes are removed, then at
\* most one is added.  linkSiteName comes from the lower-cased href, the
\* '/sites/' test of the else branch from the href as written.
HighlightLink(link, currentSiteName) ==
    LET linkSiteName == extractSiteName(toLowerCase(link.href))
        removed      == [link EXCEPT !.cur = FALSE, !.oth = FALSE]
    IN IF linkSiteName # <<>> /\ linkSiteName = currentSiteName
       THEN [removed EXCEPT !.cur = TRUE]
       ELSE IF indexOf(link.href, SITES) > 0
            THEN [removed EXCEPT !.oth = TRUE]
            ELSE removed

\* const currentSiteName of _applyHighlighting.
CurrentSiteName(url) == extractSiteName(toLowerCase(StripTrailingSlash(url)))

\* Mutant of applyHighlighting: the `if (!currentSiteName) return` is missing.
ApplyHighlightingNoAbort(ls, url) ==
    [i \in DOMAIN ls |->
        IF IsCandidate(ls[i]) THEN HighlightLink(ls[i], CurrentSiteName(url))
        ELSE ls[i]]

\* _applyHighlighting: returns at once when the current URL has no site
\* name, otherwise rewrites the markers of every selected link.
applyHighlighting(ls, url) ==
    LET currentSiteName == CurrentSiteName(url)
    IN IF currentSiteName = <<>> THEN ls
       ELSE [i \in DOMAIN ls |->
                IF IsCandidate(ls[i]) THEN HighlightLink(ls[i], currentSiteName)
                ELSE ls[i]]

-----------------------------------------------------------------------------
(* Configuration *)

Fields == {"currentSiteColor", "currentSiteFontWeight",
           "otherSiteColor", "otherSiteFontWeight"}

\* DEFAULT_NAV_CONFIG of ./INavConfig: four defined values, one per field.
DEFAULT_NAV_CONFIG ==
    [currentSiteColor      |-> "defaultCurrentSiteColor",
     currentSiteFontWeight |-> "defaultCurrentSiteFontWeight",
     otherSiteColor        |-> "defaultOtherSiteColor",
     otherSiteFontWeight   |-> "defaultOtherSiteFontWeight"]

\* Values a field of the parsed JSON can have: the field is absent
\* (undefined), holds a falsy value ('' here; 0, null and false behave the
\* same under ||), or holds a truthy value.
Undefined == "undefined"

FieldValues == {Undefined, "", "override"}

\* JavaScript truthiness of a field value.
Truthy(v) == v \notin {Undefined, ""}

\* What awaiting response.json() gives: a rejection (the body is not JSON),
\* the value null, or an object (a number, string or array has none of the
\* four fields and behaves as the empty object).
InvalidBody == [kind |-> "invalid", fields |-> [f \in Fields |-> Undefined]]

NullBody == [kind |-> "null", fields |-> [f \in Fields |-> Undefined]]

ObjectBody(o) == [kind |-> "object", fields |-> o]

Bodies == {InvalidBody, NullBody} \cup {ObjectBody(o) : o \in [Fields -> FieldValues]}

\* Mutant of MergeConfig: otherSiteColor is read from json.currentSiteColor.
MergeConfigSwapped(json) ==
    [f \in Fields |->
        LET g == IF f = "otherSiteColor" THEN "currentSiteColor" ELSE f
        IN IF Truthy(json[g]) THEN json[g] ELSE DEFAULT_NAV_CONFIG[f]]

\* The object literal assigned to this._config: json.f || DEFAULT_NAV_CONFIG.f
\* for each of the four fields.
MergeConfig(json) ==
    [f \in Fields |-> IF Truthy(json[f]) THEN json[f] ELSE DEFAULT_NAV_CONFIG[f]]

\* Mutant of ConfigAfterBody: the catch block falls back to the defaults.
ConfigAfterBodyReset(cfg, body) ==
    IF body.kind = "object" THEN MergeConfig(body.fields) ELSE DEFAULT_NAV_CONFIG

\* The inner try of _loadConfig: when response.json() rejects, or the value
\* is null so that reading json.currentSiteColor throws, the catch block only
\* logs and this._config is not assigned.
ConfigAfterBody(cfg, body) ==
    IF body.kind = "object" THEN MergeConfig(body.fields) ELSE cfg

-----------------------------------------------------------------------------
(* Style injection *)

\* The style state of the controller and the document.
Styles(el, head, n) == [styleElement |-> el, headStyles |-> head, stylesCreated |-> n]

\* Element.remove(): the element leaves its parent; no effect when detached.
RemoveElement(head, el) == {e \in head : e.id # el}

\* Mutant of injectStyles: the previous element is not removed.
InjectStylesNoRemove(st, cfg) ==
    LET fresh == st.stylesCreated + 1
    IN Styles(fresh, st.headStyles \cup {[id |-> fresh, css |-> cfg]}, fresh)

\* _injectStyles: the previous element, if any, is removed; a new <style>
\* whose rules interpolate the four fields of this._config is created, kept
\* in this._styleElement and appended to document.head.
injectStyles(st, cfg) ==
    LET removed == IF st.styleElement # 0
                   THEN RemoveElement(st.headStyles, st.styleElement)
                   ELSE st.headStyles
        fresh   == st.stylesCreated + 1
    IN Styles(fresh, removed \cup {[id |-> fresh, css |-> cfg]}, fresh)

\* _injectStyles when document.head.appendChild throws: the previous element
\* is gone, the new one is kept in this._styleElement and attached nowhere.
injectStylesAppendThrows(st, cfg) ==
    LET removed == IF st.styleElement # 0
                   THEN RemoveElement(st.headStyles, st.styleElement)
                   ELSE st.headStyles
        fresh   == st.stylesCreated + 1
    IN Styles(fresh, removed, fresh)

\* The second try block of onDispose.
DisposeStyles(st) ==
    IF st.styleElement # 0
    THEN Styles(0, RemoveElement(st.headStyles, st.styleElement), st.stylesCreated)
    ELSE st

-----------------------------------------------------------------------------
(* Reference definitions the claims are stated with *)

Contains(s, sep) == \E k \in 1..Len(s) : k + Len(sep) - 1 <= Len(s)
                                         /\ SubSeq(s, k, k + Len(sep) - 1) = sep

\* Position of the first character after the first '/sites/' of s.
AfterFirstMarker(s) ==
    (CHOOSE k \in 1..Len(s) :
        /\ k + 6 <= Len(s)
        /\ SubSeq(s, k, k + 6) = SITES
        /\ \A j \in 1..(k - 1) : SubSeq(s, j, j + 6) # SITES) + 7

\* The text of s from position p up to, not including, the next '/'.
UpToSlash(s, p) ==
    LET stops == {k \in p..Len(s) : s[k] = "/"}
        last  == IF stops = {} THEN Len(s)
                 ELSE (CHOOSE k \in stops : \A j \in stops : k <= j) - 1
    IN SubSeq(s, p, last)

-----------------------------------------------------------------------------
(* SpecExtract: _extractSiteName applied to bounded inputs *)

\* Number of pieces an input URL is assembled from.
MaxPieces == 4

Pieces ==
    { SITES, SLASH, <<"a">>, <<"b">>, <<"?", "x">>,
      <<"/", "s", "i", "t", "e">>, <<"s", "/">> }

RECURSIVE Concats(_)
Concats(n) ==
    IF n = 0 THEN { <<>> }
    ELSE LET shorter == Concats(n - 1)
         IN shorter \cup { u \o p : u \in shorter, p \in Pieces }

Urls == Concats(MaxPieces)

\* What the second call appends: a query string, a trailing path, nothing.
Suffixes == { <<>>, <<"?", "x", "=", "1">>, <<"/", "b">> }

\* The variables of a harness that is not running keep these values.
ExIdle ==
    /\ exUrl = <<>>
    /\ exSuffix = <<>>
    /\ exResult = <<>>
    /\ exResult2 = <<>>
    /\ exDone = FALSE

DomIdle ==
    /\ absoluteUrl = <<>>
    /\ links = <<>>

PassIdle ==
    /\ passes = 0
    /\ beforeFirst = <<>>
    /\ afterFirst = <<>>

StyleIdle ==
    /\ styleElement = 0
    /\ headStyles = {}
    /\ stylesCreated = 0

LifeIdle ==
    /\ build = "main"
    /\ disposed = FALSE
    /\ observer = 0
    /\ connected = {}
    /\ throttleTimer = 0
    /\ timers = {}
    /\ subscribed = FALSE
    /\ initSteps = <<>>
    /\ winState = "none"
    /\ winTimer = 0
    /\ winBatches = 0
    /\ winPasses = 0
    /\ initPromise = "none"
    /\ disposeFaults = {}
    /\ passFailed = FALSE
    /\ otherWrites = {}

CfgIdle ==
    /\ pc = "new"
    /\ config = DEFAULT_NAV_CONFIG
    /\ loadOutcome = "none"
    /\ configBefore = DEFAULT_NAV_CONFIG
    /\ lastBody = InvalidBody
    /\ loads = 0

InitExtract ==
    /\ exUrl \in Urls
    /\ exSuffix \in Suffixes
    /\ exResult = <<>>
    /\ exResult2 = <<>>
    /\ exDone = FALSE
    /\ DomIdle
    /\ PassIdle
    /\ CfgIdle
    /\ StyleIdle
    /\ LifeIdle

ExtractCall ==
    /\ ~exDone
    /\ exResult' = extractSiteName(exUrl)
    /\ exResult2' = extractSiteName(exUrl \o exSuffix)
    /\ exDone' = TRUE
    /\ UNCHANGED <<exUrl, exSuffix, domVars, passVars, cfgVars, styleVars, lifeVars>>

NextExtract == ExtractCall

SpecExtract == InitExtract /\ [][NextExtract]_vars

-----------------------------------------------------------------------------
(* SpecPass: _applyHighlighting called repeatedly on an unchanged DOM and URL *)

\* Number of anchors in the DOM of SpecPass.
NumLinks == 2

\* Number of consecutive _applyHighlighting calls in SpecPass.
MaxPasses == 2

UrlSiteA == SITES \o <<"A", "/">>
UrlSiteB == <<"h">> \o SITES \o <<"b">>
UrlNoSite == <<"h", "/", "a">>

\* Values of pageContext.web.absoluteUrl: site a (upper case, trailing
\* slash), site b, and a page outside /sites/.
PageUrls == { UrlSiteA, UrlSiteB, UrlNoSite }

HrefSiteA == SITES \o <<"a">>
HrefSiteBPage == <<"h">> \o SITES \o <<"b", "/", "x">>
HrefUpperA == <<"/", "S", "i", "t", "e", "s", "/", "A", "/">>
HrefUpperB == <<"/", "S", "I", "T", "E", "S", "/", "b">>

\* Values of the href attribute; <<>> is the target without '/sites/', the
\* empty one and the missing attribute (getAttribute('href') || '').
Hrefs == { HrefSiteA, HrefSiteBPage, HrefUpperA, HrefUpperB, <<>> }

PassLinks ==
    { Link(h, c, cur, oth) :
        h \in Hrefs, c \in {"hubNav", "nav"}, cur \in BOOLEAN, oth \in BOOLEAN }

InitPass ==
    /\ absoluteUrl \in PageUrls
    /\ links \in [1..NumLinks -> PassLinks]
    /\ passes = 0
    /\ beforeFirst = links
    /\ afterFirst = <<>>
    /\ ExIdle
    /\ CfgIdle
    /\ StyleIdle
    /\ LifeIdle

PassCall ==
    /\ passes < MaxPasses
    /\ links' = applyHighlighting(links, absoluteUrl)
    /\ passes' = passes + 1
    /\ afterFirst' = IF passes = 0 THEN links' ELSE afterFirst
    /\ UNCHANGED <<absoluteUrl, beforeFirst, exVars, cfgVars, styleVars, lifeVars>>

NextPass == PassCall

SpecPass == InitPass /\ [][NextPass]_vars

-----------------------------------------------------------------------------
(* SpecConfig: _loadConfig called repeatedly *)

\* Number of _loadConfig calls in SpecConfig.
MaxLoads == 2

InitConfig ==
    /\ CfgIdle
    /\ ExIdle
    /\ DomIdle
    /\ PassIdle
    /\ StyleIdle
    /\ LifeIdle

\* _loadConfig is entered and suspends on spHttpClient.get.
LoaderCall ==
    /\ pc \in {"new", "loaded"}
    /\ loads < MaxLoads
    /\ pc' = "awaitGet"
    /\ configBefore' = config
    /\ loadOutcome' = "pending"
    /\ loads' = loads + 1
    /\ UNCHANGED <<config, lastBody, exVars, domVars, passVars, styleVars, lifeVars>>

\* spHttpClient.get rejects: the outer catch logs.
LoaderGetRejected ==
    /\ pc = "awaitGet"
    /\ pc' = "loaded"
    /\ loadOutcome' = "getRejected"
    /\ UNCHANGED <<config, configBefore, lastBody, loads, exVars, domVars, passVars, styleVars, lifeVars>>

\* The response arrives with ok = false: the else branch logs.
LoaderNotOk ==
    /\ pc = "awaitGet"
    /\ pc' = "loaded"
    /\ loadOutcome' = "notOk"
    /\ UNCHANGED <<config, configBefore, lastBody, loads, exVars, domVars, passVars, styleVars, lifeVars>>

\* The response arrives with ok = true: _loadConfig suspends on response.json().
LoaderOk ==
    /\ pc = "awaitGet"
    /\ pc' = "awaitJson"
    /\ UNCHANGED <<config, loadOutcome, configBefore, lastBody, loads,
                   exVars, domVars, passVars, styleVars, lifeVars>>

\* response.json() settles with body.
LoaderBody(body) ==
    /\ pc = "awaitJson"
    /\ pc' = "loaded"
    /\ config' = ConfigAfterBody(config, body)
    /\ lastBody' = body
    /\ loadOutcome' = IF body.kind = "object" THEN "parsed" ELSE "parseFailed"
    /\ UNCHANGED <<configBefore, loads, exVars, domVars, passVars, styleVars, lifeVars>>

NextConfig ==
    \/ LoaderCall
    \/ LoaderGetRejected
    \/ LoaderNotOk
    \/ LoaderOk
    \/ \E body \in Bodies : LoaderBody(body)

SpecConfig == InitConfig /\ [][NextConfig]_vars

-----------------------------------------------------------------------------
(* SpecStyles: _injectStyles and the style release of onDispose, repeated *)

\* Number of _injectStyles calls in SpecStyles.
MaxInjections == 4

Configs == {MergeConfig(o) : o \in [Fields -> {Undefined, "override"}]}

InitStyles ==
    /\ StyleIdle
    /\ CfgIdle
    /\ LifeIdle
    /\ ExIdle
    /\ DomIdle
    /\ PassIdle

\* this._config is given the value cfg, then _injectStyles is called.
StylesInjectCall(cfg) ==
    /\ stylesCreated < MaxInjections
    /\ config' = cfg
    /\ LET st == injectStyles(Styles(styleElement, headStyles, stylesCreated), cfg)
       IN /\ styleElement' = st.styleElement
          /\ headStyles' = st.headStyles
          /\ stylesCreated' = st.stylesCreated
    /\ UNCHANGED <<pc, loadOutcome, configBefore, lastBody, loads,
                   exVars, domVars, passVars, lifeVars>>

StylesDisposeCall ==
    /\ styleElement # 0
    /\ LET st == DisposeStyles(Styles(styleElement, headStyles, stylesCreated))
       IN /\ styleElement' = st.styleElement
          /\ headStyles' = st.headStyles
          /\ stylesCreated' = st.stylesCreated
    /\ UNCHANGED <<exVars, domVars, passVars, cfgVars, lifeVars>>

NextStyles ==
    \/ \E cfg \in Configs : StylesInjectCall(cfg)
    \/ StylesDisposeCall

SpecStyles == InitStyles /\ [][NextStyles]_vars

-----------------------------------------------------------------------------
(* C5 *)

\* C5: at most one style resource injected by the controller is attached to
\* the document at any time; an injection removes the previous one before it
\* attaches the new one, so after any number of consecutive injections
\* exactly one is attached, the one created last.
C5_SingleStyleResource ==
    /\ Cardinality(headStyles) <= 1
    /\ styleElement # 0 =>
          headStyles = {[id |-> stylesCreated, css |-> config]}

\* Three consecutive injections have left one element, the third.
C5_Witness ==
    /\ stylesCreated = 3
    /\ styleElement = 3
    /\ Cardinality(headStyles) = 1

-----------------------------------------------------------------------------
(* C8, C10 *)

\* C8: after a successful fetch and parse each of the four fields equals the
\* JSON's value when that is present and truthy and the built-in default
\* otherwise, independently of the other fields, and none is undefined.
C8_FieldwiseMerge ==
    loadOutcome = "parsed" =>
        \A f \in Fields :
            /\ config[f] = IF lastBody.fields[f] \notin {Undefined, ""}
                           THEN lastBody.fields[f]
                           ELSE DEFAULT_NAV_CONFIG[f]
            /\ config[f] # Undefined

\* Only currentSiteColor is supplied: it is overridden, the other three
\* fields are the defaults.
C8_Witness ==
    /\ loadOutcome = "parsed"
    /\ lastBody.fields = [f \in Fields |->
            IF f = "currentSiteColor" THEN "override" ELSE Undefined]
    /\ config = [DEFAULT_NAV_CONFIG EXCEPT !.currentSiteColor = "override"]

\* C10: when the status is success but reading or parsing the body fails,
\* the configuration is what it was before the load, no field changed, and
\* the loader returns normally.
C10_ParseFailureKeepsConfig ==
    loadOutcome = "parseFailed" => (config = configBefore /\ pc = "loaded")

\* A second load fails to parse after a first load overrode a field.
C10_Witness ==
    /\ loadOutcome = "parseFailed"
    /\ loads = 2
    /\ configBefore # DEFAULT_NAV_CONFIG
    /\ config = configBefore

-----------------------------------------------------------------------------
(* C2, C4 *)

\* The site identifier of a link target, case-insensitively: the text after
\* the first '/sites/' (in any letter case) up to the next '/'.
SiteIdOf(h) ==
    LET low == toLowerCase(h)
    IN IF ~Contains(low, SITES) \/ AfterFirstMarker(low) > Len(low) THEN <<>>
       ELSE UpToSlash(low, AfterFirstMarker(low))

\* The markers the link target h alone gives a link when the current site is
\* cs: <<current-site, other-site>>.
ExpectedMarkers(h, cs) ==
    LET id    == SiteIdOf(h)
        isCur == id # <<>> /\ id = cs
    IN <<isCur, ~isCur /\ Contains(h, SITES)>>

\* C2: after a pass run with a non-empty current site, every candidate link
\* carries exactly the markers its link target gives it, whatever it carried
\* before: current-site if its site identifier is non-empty and equals the
\* current site, else other-site if the target contains '/sites/', else none.
C2_MarkersFromTarget ==
    passes >= 1 =>
        LET cs == SiteIdOf(absoluteUrl)
        IN cs # <<>> =>
            \A i \in DOMAIN links :
                IsCandidate(links[i]) =>
                    <<links[i].cur, links[i].oth>> = ExpectedMarkers(links[i].href, cs)

\* One pass on site a: a link to site a that carried the other-site marker
\* now carries only current-site, a link to site b that carried both now
\* carries only other-site.
C2_Witness ==
    /\ passes = 1
    /\ absoluteUrl = UrlSiteA
    /\ beforeFirst[1] = Link(HrefSiteA, "hubNav", FALSE, TRUE)
    /\ beforeFirst[2] = Link(HrefSiteBPage, "nav", TRUE, TRUE)
    /\ links[1] = Link(HrefSiteA, "hubNav", TRUE, FALSE)
    /\ links[2] = Link(HrefSiteBPage, "nav", FALSE, TRUE)

\* C4: a second pass on an unchanged DOM and URL leaves every link with the
\* marker set the first pass gave it, for every initial marker state and
\* every current URL, one without a site identifier included.
C4_Idempotent ==
    passes >= 2 => links = afterFirst

\* Two passes have run on site b over a link that started with both markers
\* and a link whose marker the first pass replaced.
C4_Witness ==
    /\ passes = 2
    /\ absoluteUrl = UrlSiteB
    /\ beforeFirst[1] = Link(HrefSiteA, "hubNav", TRUE, TRUE)
    /\ links[1] = Link(HrefSiteA, "hubNav", FALSE, TRUE)
    /\ beforeFirst[2] = Link(HrefUpperB, "hubNav", FALSE, TRUE)
    /\ links[2] = Link(HrefUpperB, "hubNav", TRUE, FALSE)

-----------------------------------------------------------------------------
(* C6, C7 *)

\* C6: extractSiteName(u) is empty when u has no '/sites/' or nothing follows
\* its first occurrence; otherwise it is the text right after the FIRST
\* '/sites/' up to the next '/', also when '/sites/' occurs more than once.
C6_FirstOccurrence ==
    exDone =>
        IF ~Contains(exUrl, SITES) THEN exResult = <<>>
        ELSE IF AfterFirstMarker(exUrl) > Len(exUrl) THEN exResult = <<>>
        ELSE exResult = UpToSlash(exUrl, AfterFirstMarker(exUrl))

\* The marker occurs twice, with different segments after each occurrence.
C6_Witness ==
    /\ exDone
    /\ exUrl = SITES \o <<"a">> \o SITES \o <<"b">>
    /\ exResult = <<"a">>

\* C7: for a URL containing '/sites/', appending a query string or a
\* trailing path does not change the site identifier returned.
C7_SuffixIgnored ==
    (exDone /\ Contains(exUrl, SITES)) => exResult2 = exResult

-----------------------------------------------------------------------------
(* Spec: the life of one controller in its host page *)

\* Number of anchors in the DOM of Spec.
NumNavLinks == 1

\* Largest timer id window.setTimeout hands out in Spec.
MaxTimerId == 2

\* Largest number of mutation batches counted in one throttle window.
MaxBatches == 3

Builds == {"main", "part_000"}

\* Anchors of Spec: a link to site a or to site b under a hub navigation
\* container; markers may be left over from an earlier page life, never both.
NavHrefs == {HrefSiteA, HrefSiteBPage}

NavLinks ==
    { Link(h, "hubNav", m[1], m[2]) :
        h \in NavHrefs, m \in {<<FALSE, FALSE>>, <<TRUE, FALSE>>, <<FALSE, TRUE>>} }

\* What a structural mutation of the host leaves at an anchor's place: a
\* newly rendered anchor without markers, or the anchor as it is (the
\* mutation was elsewhere under document.body).
Rendered(link) == {Link(h, "hubNav", FALSE, FALSE) : h \in NavHrefs} \cup {link}

\* Bodies a configuration file answers with in Spec.
NavBodies ==
    { InvalidBody,
      ObjectBody([f \in Fields |->
          IF f = "currentSiteColor" THEN "override" ELSE Undefined]) }

\* A pending setTimeout callback.
Timer(id, kind) == [id |-> id, kind |-> kind]

\* The ids window.setTimeout may return: any id no pending timer has.
FreeTimerIds == {id \in 1..MaxTimerId : \A t \in timers : t.id # id}

PendingThrottle == {t \in timers : t.kind = "throttle"}

\* clearTimeout(id)
ClearTimeout(ts, id) == {t \in ts : t.id # id}

\* The host calls of startup that may throw: document.head.appendChild in
\* _injectStyles, observer.observe in _watchMegaMenu, querySelectorAll in
\* _applyHighlighting, navigatedEvent.add in onInit, observe in _observeDOM.
InitCalls ==
    {"appendChild", "megaObserve", "querySelectorAll", "navigatedEvent.add", "observe"}

\* The host calls of onDispose that may throw.
DisposeCalls == {"disconnect", "remove", "clearTimeout"}

\* What a structural mutation adds besides the anchors: nothing of interest,
\* or an .ms-Callout holding, under .ms-MegaMenu-gridLayout, an anchor whose
\* class starts with itemLinkMenuHeading.
Callouts == {"none", "heading"}

Init ==
    /\ build \in Builds
    /\ absoluteUrl \in PageUrls
    /\ links \in [1..NumNavLinks -> NavLinks]
    /\ disposed = FALSE
    /\ observer = 0
    /\ connected = {}
    /\ throttleTimer = 0
    /\ timers = {}
    /\ subscribed = FALSE
    /\ initSteps = <<>>
    /\ winState = "none"
    /\ winTimer = 0
    /\ winBatches = 0
    /\ winPasses = 0
    /\ initPromise = "none"
    /\ disposeFaults = {}
    /\ passFailed = FALSE
    /\ otherWrites = {}
    /\ CfgIdle
    /\ StyleIdle
    /\ ExIdle
    /\ PassIdle

\* The statements of onInit after `await this._loadConfig()`, in order, in
\* HubNavigationApplicationCustomizer.ts.
MainSteps ==
    <<"injectStyles", "applyHighlighting", "navigatedEvent.add", "observeDOM">>

\* The same in the variant that also calls _watchMegaMenu.
Part000Steps ==
    <<"injectStyles", "watchMegaMenu", "applyHighlighting",
      "navigatedEvent.add", "observeDOM">>

\* Mutant of OnInitSteps: a failed load ends startup.
OnInitStepsStopOnFailure(b, outcome) ==
    IF outcome \in {"getRejected", "notOk", "parseFailed"} THEN <<>>
    ELSE IF b = "part_000" THEN Part000Steps ELSE MainSteps

\* The statements onInit runs once the load has ended in outcome.
\* _loadConfig catches whatever happens in it, so the outcome of the load
\* does not decide which statements run.
OnInitSteps(b, outcome) ==
    IF b = "part_000" THEN Part000Steps ELSE MainSteps

Ran(step, steps) == \E k \in 1..Len(steps) : steps[k] = step

\* The statement lets an exception out when the host calls in F throw.
\* _injectStyles, _applyHighlighting and _observeDOM each wrap their body in
\* try/catch; _watchMegaMenu has none, and navigatedEvent.add is called
\* directly in the try block of onInit.
StepThrows(step, F) ==
    \/ step = "watchMegaMenu" /\ "megaObserve" \in F
    \/ step = "navigatedEvent.add" /\ "navigatedEvent.add" \in F

\* The statements of the try block of onInit that are entered: those up to
\* and including the first one that lets an exception out.
StepsReached(steps, F) ==
    LET throwing == {k \in 1..Len(steps) : StepThrows(steps[k], F)}
    IN IF throwing = {} THEN steps
       ELSE SubSeq(steps, 1, CHOOSE k \in throwing : \A j \in throwing : k <= j)

\* Mutant of OnInitSettles: onInit has no catch block.
OnInitSettlesUncaught(thrown) == IF thrown THEN "rejected" ELSE "fulfilled"

\* How the promise of onInit settles: the catch block logs what the try
\* block threw, then `return Promise.resolve()`.
OnInitSettles(thrown) == "fulfilled"

\* Mutant of onInit: the navigation handler is added before the load.
onInitSubscribesFirst ==
    /\ pc = "new"
    /\ pc' = "awaitGet"
    /\ configBefore' = config
    /\ loadOutcome' = "pending"
    /\ loads' = loads + 1
    /\ initPromise' = "pending"
    /\ subscribed' = TRUE
    /\ UNCHANGED <<config, lastBody, exVars, domVars, passVars, styleVars,
                   build, disposed, observer, connected, throttleTimer, timers,
                   initSteps, winVars,
                   disposeFaults, passFailed, otherWrites>>

\* onInit is called: _loadConfig starts and suspends on spHttpClient.get.
onInit ==
    /\ pc = "new"
    /\ pc' = "awaitGet"
    /\ configBefore' = config
    /\ loadOutcome' = "pending"
    /\ loads' = loads + 1
    /\ initPromise' = "pending"
    /\ UNCHANGED <<config, lastBody, exVars, domVars, passVars, styleVars,
                   build, disposed, observer, connected, throttleTimer, timers,
                   subscribed, initSteps, winVars,
                   disposeFaults, passFailed, otherWrites>>

\* onInit resumes after the load, which ended in outcome and left cfg in
\* this._config, and runs to its end in the same turn of the event loop.
\* The host calls in F throw.  A throwing appendChild leaves the new element
\* detached, a throwing querySelectorAll leaves the links as they are, a
\* throwing observe leaves the observer unconnected (this._observer is
\* assigned before observe is called).
ResumeOnInit(cfg, outcome, F) ==
    LET steps  == StepsReached(OnInitSteps(build, outcome), F)
        thrown == \E k \in 1..Len(steps) : StepThrows(steps[k], F)
        now    == Styles(styleElement, headStyles, stylesCreated)
        st     == IF ~Ran("injectStyles", steps) THEN now
                  ELSE IF "appendChild" \in F THEN injectStylesAppendThrows(now, cfg)
                  ELSE injectStyles(now, cfg)
        mega   == IF Ran("watchMegaMenu", steps) /\ "megaObserve" \notin F
                  THEN {"mega"} ELSE {}
        dom    == IF Ran("observeDOM", steps) /\ observer = 0 /\ "observe" \notin F
                  THEN {"dom"} ELSE {}
    IN /\ pc' = "done"
       /\ initSteps' = steps
       /\ initPromise' = OnInitSettles(thrown)
       /\ styleElement' = st.styleElement
       /\ headStyles' = st.headStyles
       /\ stylesCreated' = st.stylesCreated
       /\ links' = IF Ran("applyHighlighting", steps) /\ "querySelectorAll" \notin F
                   THEN applyHighlighting(links, absoluteUrl)
                   ELSE links
       /\ subscribed' = (subscribed \/ (Ran("navigatedEvent.add", steps)
                                         /\ "navigatedEvent.add" \notin F))
       /\ observer' = IF Ran("observeDOM", steps) THEN 1 ELSE observer
       /\ connected' = connected \cup mega \cup dom
       /\ UNCHANGED <<absoluteUrl, build, disposed, throttleTimer, timers, winVars,
                      disposeFaults, passFailed, otherWrites, exVars, passVars>>

\* spHttpClient.get rejects.
GetRejected(F) ==
    /\ pc = "awaitGet"
    /\ loadOutcome' = "getRejected"
    /\ UNCHANGED <<config, configBefore, lastBody, loads>>
    /\ ResumeOnInit(config, "getRejected", F)

\* The response has ok = false.
GetNotOk(F) ==
    /\ pc = "awaitGet"
    /\ loadOutcome' = "notOk"
    /\ UNCHANGED <<config, configBefore, lastBody, loads>>
    /\ ResumeOnInit(config, "notOk", F)

\* The response has ok = true: _loadConfig suspends on response.json().
GetOk ==
    /\ pc = "awaitGet"
    /\ pc' = "awaitJson"
    /\ UNCHANGED <<config, loadOutcome, configBefore, lastBody, loads,
                   exVars, domVars, passVars, styleVars, lifeVars>>

\* response.json() settles with body.
JsonSettled(body, F) ==
    /\ pc = "awaitJson"
    /\ config' = ConfigAfterBody(config, body)
    /\ lastBody' = body
    /\ loadOutcome' = IF body.kind = "object" THEN "parsed" ELSE "parseFailed"
    /\ UNCHANGED <<configBefore, loads>>
    /\ ResumeOnInit(config', loadOutcome', F)

\* Mutant of ThrottleIdle: the `if (this._throttleTimer) return` is missing.
ThrottleIdleAlways == TRUE

\* The guard of the observer callback: no timer id is held.
ThrottleIdle == throttleTimer = 0

\* processCallout of _watchMegaMenu on an added .ms-Callout: an anchor whose
\* class starts with itemLinkMenuHeading gets the class spfx-label-highlight.
\* (A section gets inline styles only when it has the class spfx-mega-label
\* already, which no callout of the model has.)
MegaWrites(callout) ==
    IF callout = "heading" THEN {"class spfx-label-highlight"} ELSE {}

\* The host page changes the DOM under document.body (a structural
\* mutation), leaving nl at the place of anchor i and adding callout.  The
\* batch is delivered to the observer of _observeDOM, when connected, before
\* any timer runs: the callback returns when a timer id is held, else it
\* keeps the id that window.setTimeout returns.  id = 0 stands for no call
\* of setTimeout.  In the part_000 build the observer of _watchMegaMenu,
\* when connected, receives the batch too; its callback writes neither
\* marker class.
HostMutation(i, nl, id, callout) ==
    /\ links' = [links EXCEPT ![i] = nl]
    /\ IF "dom" \in connected
       THEN /\ PendingThrottle # {} => winBatches < MaxBatches
            /\ IF ThrottleIdle
               THEN /\ id # 0
                    /\ throttleTimer' = id
                    /\ timers' = timers \cup {Timer(id, "throttle")}
               ELSE /\ id = 0
                    /\ UNCHANGED <<throttleTimer, timers>>
            /\ IF PendingThrottle = {}
               THEN /\ winState' = "open"
                    /\ winTimer' = id
                    /\ winBatches' = 1
                    /\ winPasses' = 0
               ELSE /\ winBatches' = winBatches + 1
                    /\ UNCHANGED <<winState, winTimer, winPasses>>
       ELSE /\ id = 0
            /\ UNCHANGED <<throttleTimer, timers, winVars>>
    /\ otherWrites' = IF "mega" \in connected
                      THEN otherWrites \cup MegaWrites(callout)
                      ELSE otherWrites
    /\ UNCHANGED <<absoluteUrl, build, disposed, observer, connected, subscribed,
                   initSteps, initPromise, disposeFaults, passFailed,
                   exVars, passVars, cfgVars, styleVars>>

\* The host navigates to url; a subscribed handler defers a pass with
\* setTimeout, which returns id (0 when there is no handler).
Navigated(url, id) ==
    /\ absoluteUrl' = url
    /\ subscribed <=> id # 0
    /\ timers' = IF subscribed THEN timers \cup {Timer(id, "nav")} ELSE timers
    /\ UNCHANGED <<links, build, disposed, observer, connected, throttleTimer,
                   subscribed, initSteps, winVars, hostVars,
                   exVars, passVars, cfgVars, styleVars>>

\* The deferred pass of the navigation handler runs.
NavTimerFires(t) ==
    /\ t \in timers
    /\ t.kind = "nav"
    /\ timers' = timers \ {t}
    /\ links' = applyHighlighting(links, absoluteUrl)
    /\ UNCHANGED <<absoluteUrl, build, disposed, observer, connected, throttleTimer,
                   subscribed, initSteps, winVars, hostVars,
                   exVars, passVars, cfgVars, styleVars>>

\* Mutant of ThrottleAfterPass: the timer id is cleared at the end of the try
\* block, not in a finally block.
ThrottleAfterPassNoFinally(held, failed) == IF failed THEN held ELSE 0

\* Mutant of ThrottleAfterPass: the timer id is never cleared.
ThrottleAfterPassKeeps(held, failed) == held

\* this._throttleTimer after the throttle callback, which found held in it:
\* the finally block assigns null whether the pass returned or threw.
ThrottleAfterPass(held, failed) == 0

\* The throttle callback runs: one pass, which fails when querySelectorAll
\* throws and then leaves the links as they are; then the finally block.
ThrottleTimerFires(t, failed) ==
    /\ t \in timers
    /\ t.kind = "throttle"
    /\ timers' = timers \ {t}
    /\ links' = IF failed THEN links ELSE applyHighlighting(links, absoluteUrl)
    /\ throttleTimer' = ThrottleAfterPass(throttleTimer, failed)
    /\ passFailed' = failed
    /\ winState' = "fired"
    /\ winPasses' = winPasses + 1
    /\ UNCHANGED <<absoluteUrl, build, disposed, observer, connected, subscribed,
                   initSteps, winTimer, winBatches,
                   initPromise, disposeFaults, otherWrites,
                   exVars, passVars, cfgVars, styleVars>>

\* The calls onDispose makes in the current state: each try block tests its
\* field first.
DisposeAttempts ==
    {c \in DisposeCalls :
        \/ c = "disconnect" /\ observer # 0
        \/ c = "remove" /\ styleElement # 0
        \/ c = "clearTimeout" /\ throttleTimer # 0}

\* Mutant of DisposeReleases: one try block around the three releases.
DisposeReleasesOneTry(threw) ==
    IF "disconnect" \in threw THEN {}
    ELSE IF "remove" \in threw THEN {"disconnect"}
    ELSE IF "clearTimeout" \in threw THEN {"disconnect", "remove"}
    ELSE DisposeCalls

\* The releases of onDispose that run to their end when the calls in threw
\* throw: each release has a try block of its own.
DisposeReleases(threw) == DisposeCalls \ threw

\* onDispose: the observer of _observeDOM is disconnected, the style element
\* removed, the throttle timer cleared; each only when its field is set.  Of
\* the calls made, those in D throw; a call that throws has no effect and
\* leaves the field of its try block as it is.
onDispose(D) ==
    LET threw == D \cap DisposeAttempts
        done  == DisposeReleases(threw)
        now   == Styles(styleElement, headStyles, stylesCreated)
        st    == IF "remove" \in done THEN DisposeStyles(now) ELSE now
    IN /\ pc # "new"
       /\ ~disposed
       /\ disposed' = TRUE
       /\ disposeFaults' = threw
       /\ observer' = IF "disconnect" \in done THEN 0 ELSE observer
       /\ connected' = IF observer # 0 /\ "disconnect" \in done
                       THEN connected \ {"dom"} ELSE connected
       /\ styleElement' = st.styleElement
       /\ headStyles' = st.headStyles
       /\ stylesCreated' = st.stylesCreated
       /\ timers' = IF throttleTimer # 0 /\ "clearTimeout" \in done
                    THEN ClearTimeout(timers, throttleTimer)
                    ELSE timers
       /\ throttleTimer' = IF "clearTimeout" \in done THEN 0 ELSE throttleTimer
       /\ winState' = IF PendingThrottle # {} /\ throttleTimer # 0
                         /\ "clearTimeout" \in done
                      THEN "cancelled" ELSE winState
       /\ UNCHANGED <<absoluteUrl, links, build, subscribed, initSteps,
                      winTimer, winBatches, winPasses,
                      initPromise, passFailed, otherWrites,
                      exVars, passVars, cfgVars>>

\* The life of a controller whose host calls do not throw and whose page
\* opens no callout.
Next ==
    \/ onInit
    \/ GetRejected({})
    \/ GetNotOk({})
    \/ GetOk
    \/ \E body \in NavBodies : JsonSettled(body, {})
    \/ \E i \in 1..NumNavLinks, id \in FreeTimerIds \cup {0} :
           \E nl \in Rendered(links[i]) : HostMutation(i, nl, id, "none")
    \/ \E url \in PageUrls, id \in FreeTimerIds \cup {0} : Navigated(url, id)
    \/ \E t \in timers : NavTimerFires(t)
    \/ \E t \in timers : ThrottleTimerFires(t, FALSE)
    \/ onDispose({})

Spec == Init /\ [][Next]_vars

-----------------------------------------------------------------------------
(* C1, C3, C9 *)

\* C1: from the start of a throttle timer until it fires, whatever number of
\* mutation batches is delivered, exactly one throttle timer is pending, it
\* is the timer that opened the window (none is added, it is not restarted),
\* and the window ends with exactly one highlighting pass.
C1_ThrottleCoalesces ==
    /\ Cardinality(PendingThrottle) <= 1
    /\ winState = "open" =>
          /\ PendingThrottle = {Timer(winTimer, "throttle")}
          /\ throttleTimer = winTimer
          /\ winPasses = 0
    /\ winState = "fired" => winPasses = 1
    /\ winState = "cancelled" => winPasses = 0

\* Three batches arrived in one window, which ended with one pass.
C1_Witness ==
    /\ winState = "fired"
    /\ winBatches = 3
    /\ winPasses = 1

\* C3: in every state reached through passes, host mutations, navigation
\* and teardown, from a DOM in which no link carries both markers, no link
\* carries the current-site and the other-site marker together.
C3_NeverBothMarkers ==
    \A i \in DOMAIN links : ~(links[i].cur /\ links[i].oth)

\* After startup on one site, a navigation to site b, a throttled pass and
\* teardown, the link to site a carries only the other-site marker.
C3_Witness ==
    /\ pc = "done"
    /\ disposed
    /\ winState = "fired"
    /\ absoluteUrl = UrlSiteB
    /\ links[1] = Link(HrefSiteA, "hubNav", FALSE, TRUE)

\* C9: when the fetch of the configuration fails or answers with a
\* non-success status, the configuration after the load is the built-in
\* defaults, and startup goes on: the styles are injected (from the
\* defaults) and the first highlighting pass runs.
C9_FailedFetchKeepsDefaults ==
    (pc = "done" /\ loadOutcome \in {"getRejected", "notOk"}) =>
        /\ config = DEFAULT_NAV_CONFIG
        /\ Ran("injectStyles", initSteps)
        /\ Ran("applyHighlighting", initSteps)
        /\ stylesCreated = 1
        /\ styleElement # 0 => headStyles = {[id |-> 1, css |-> DEFAULT_NAV_CONFIG]}
        /\ ~disposed => styleElement # 0

\* Startup has ended after a 404: default styles are attached and the link
\* to the current site is marked.
C9_Witness ==
    /\ pc = "done"
    /\ loadOutcome = "notOk"
    /\ ~disposed
    /\ headStyles = {[id |-> 1, css |-> DEFAULT_NAV_CONFIG]}
    /\ absoluteUrl = UrlSiteA
    /\ links[1] = Link(HrefSiteA, "hubNav", TRUE, FALSE)

-----------------------------------------------------------------------------
(* SpecHost: the life of one controller in a host whose calls may throw and *)
(* whose mega menu opens callouts                                           *)

\* One page, on site a, with anchors not yet marked.
InitHost ==
    /\ build \in Builds
    /\ absoluteUrl = UrlSiteA
    /\ links = [i \in 1..NumNavLinks |-> Link(HrefSiteA, "hubNav", FALSE, FALSE)]
    /\ disposed = FALSE
    /\ observer = 0
    /\ connected = {}
    /\ throttleTimer = 0
    /\ timers = {}
    /\ subscribed = FALSE
    /\ initSteps = <<>>
    /\ winState = "none"
    /\ winTimer = 0
    /\ winBatches = 0
    /\ winPasses = 0
    /\ initPromise = "none"
    /\ disposeFaults = {}
    /\ passFailed = FALSE
    /\ otherWrites = {}
    /\ CfgIdle
    /\ StyleIdle
    /\ ExIdle
    /\ PassIdle

\* The configuration file of this page: a JSON object.
HostBodies == {body \in NavBodies : body.kind = "object"}

\* What a structural mutation leaves at an anchor's place on this page: the
\* anchor rendered anew, without markers, or the anchor as it is.
HostRendered(link) == {nl \in Rendered(link) : nl.href = link.href}

NextHost ==
    \/ onInit
    \/ \E F \in SUBSET InitCalls : GetRejected(F)
    \/ GetOk
    \/ \E body \in HostBodies, F \in SUBSET InitCalls : JsonSettled(body, F)
    \/ \E i \in 1..NumNavLinks, id \in FreeTimerIds \cup {0}, callout \in Callouts :
           \E nl \in HostRendered(links[i]) : HostMutation(i, nl, id, callout)
    \/ \E t \in timers, failed \in BOOLEAN : ThrottleTimerFires(t, failed)
    \/ \E D \in SUBSET DisposeCalls : onDispose(D)

SpecHost == InitHost /\ [][NextHost]_vars

\* A step of ThrottleTimerFires, told by what no other action does: a
\* throttle timer leaves the pending ones and a pass is counted.  It is
\* enabled exactly when ThrottleTimerFires is: when a throttle timer is
\* pending.
ThrottleTimerStep ==
    \E t \in PendingThrottle :
        /\ timers' = timers \ {t}
        /\ winPasses' = winPasses + 1

\* The event loop runs a pending timer callback in the end.
SpecHostFair ==
    /\ InitHost
    /\ [][NextHost]_vars
    /\ WF_<<timers, winPasses>>(ThrottleTimerStep)

-----------------------------------------------------------------------------
(* C11 .. C15 *)

\* Position of step among the statements onInit entered; 0 when not entered.
StepIndex(step, steps) ==
    IF Ran(step, steps) THEN CHOOSE k \in 1..Len(steps) : steps[k] = step ELSE 0

\* A deferred highlighting pass runs in this step.
DeferredPassRuns ==
    \/ \E t \in timers : NavTimerFires(t)
    \/ \E t \in timers, failed \in BOOLEAN : ThrottleTimerFires(t, failed)

\* C11: the first highlighting pass of startup runs only once the
\* configuration load has ended (in success or in failure) and after
\* _injectStyles was entered; until that pass has run there is neither a
\* navigation handler, a connected observer nor a pending timer, and no
\* navigation-triggered or mutation-triggered pass runs.
C11_FirstPassOrdered ==
    /\ [](Ran("applyHighlighting", initSteps) =>
            /\ loadOutcome \in {"getRejected", "notOk", "parsed", "parseFailed"}
            /\ StepIndex("injectStyles", initSteps) > 0
            /\ StepIndex("injectStyles", initSteps)
                  < StepIndex("applyHighlighting", initSteps))
    /\ [](~Ran("applyHighlighting", initSteps) =>
            (timers = {} /\ ~subscribed /\ "dom" \notin connected))
    /\ [][DeferredPassRuns => Ran("applyHighlighting", initSteps)]_vars

\* After a successful load and the first pass, a navigation-triggered and a
\* mutation-triggered pass are both pending.
C11_Witness ==
    /\ pc = "done"
    /\ loadOutcome = "parsed"
    /\ Ran("applyHighlighting", initSteps)
    /\ \E t \in timers : t.kind = "nav"
    /\ \E t \in timers : t.kind = "throttle"

\* C12: whichever startup step fails, every later statement of onInit is
\* still entered: once onInit has ended, all its statements have been
\* entered.
C12_LaterStepsRun ==
    pc = "done" => initSteps = OnInitSteps(build, loadOutcome)

\* C13: whatever host calls throw during startup, once the load has settled
\* onInit ends and its promise is fulfilled; it is never rejected.
C13_OnInitFulfilled ==
    /\ initPromise # "rejected"
    /\ pc = "done" <=> initPromise = "fulfilled"

\* The fetch was rejected, appendChild threw inside _injectStyles and
\* _watchMegaMenu threw out of the try block: the promise is fulfilled.
C13_Witness ==
    /\ build = "part_000"
    /\ pc = "done"
    /\ loadOutcome = "getRejected"
    /\ styleElement # 0
    /\ headStyles = {}
    /\ initSteps = <<"injectStyles", "watchMegaMenu">>
    /\ initPromise = "fulfilled"

\* A callback of the controller runs in this step: a deferred pass, or the
\* delivery of a mutation batch to a connected observer.
CallbackRuns ==
    \/ DeferredPassRuns
    \/ /\ connected # {}
       /\ \E i \in 1..NumNavLinks, id \in 0..MaxTimerId, callout \in Callouts :
              HostMutation(i, links'[i], id, callout)

\* C14: once onDispose has run, no callback of the controller runs.
C14_NoCallbackAfterDispose ==
    [][disposed => ~CallbackRuns]_vars

\* C15: whatever state onDispose is called in and whichever of its calls
\* throw, each release whose own call does not throw is carried out: the
\* observer of _observeDOM is disconnected, the style element is out of the
\* document, no throttle timer is pending.
C15_ReleasesIndependent ==
    [][\A D \in SUBSET DisposeCalls :
          onDispose(D) =>
            /\ "disconnect" \notin D => (observer' = 0 /\ "dom" \notin connected')
            /\ "remove" \notin D => (styleElement' = 0 /\ headStyles' = {})
            /\ "clearTimeout" \notin D =>
                  (throttleTimer' = 0 /\ \A t \in timers' : t.kind # "throttle")]_vars

\* onDispose ran with the observer connected, the style attached and a
\* throttle timer pending; remove() threw, the two other releases were made.
C15_Witness ==
    /\ disposed
    /\ pc = "done"
    /\ disposeFaults = {"remove"}
    /\ headStyles # {}
    /\ Ran("observeDOM", initSteps)
    /\ observer = 0
    /\ "dom" \notin connected
    /\ winState = "cancelled"
    /\ throttleTimer = 0
    /\ timers = {}

-----------------------------------------------------------------------------
(* SpecCase: one _applyHighlighting call over targets that differ in case *)

HrefSiteB == SITES \o <<"b">>

\* Targets of the anchors: /sites/b, the same in other letter case, and a
\* target on another site.
CaseHrefs == { HrefSiteB, HrefUpperB, HrefSiteA }

CaseLinks == { Link(h, c, FALSE, FALSE) : h \in CaseHrefs, c \in {"hubNav", "nav"} }

InitCase ==
    /\ absoluteUrl \in PageUrls
    /\ links \in [1..NumLinks -> CaseLinks]
    /\ passes = 0
    /\ beforeFirst = links
    /\ afterFirst = <<>>
    /\ ExIdle
    /\ CfgIdle
    /\ StyleIdle
    /\ LifeIdle

SpecCase == InitCase /\ [][NextPass]_vars

-----------------------------------------------------------------------------
(* C16 .. C20 *)

\* C16: when the current URL yields no site identifier, a highlighting pass
\* leaves every link as it was, stale markers included.
C16_EmptySiteAborts ==
    (passes >= 1 /\ CurrentSiteName(absoluteUrl) = <<>>) => links = beforeFirst

\* A pass ran on a page outside /sites/: the stale markers of a selected
\* link are still there.
C16_Witness ==
    /\ passes >= 1
    /\ absoluteUrl = UrlNoSite
    /\ links[1] = Link(HrefSiteA, "hubNav", TRUE, TRUE)
    /\ links[2] = Link(HrefSiteBPage, "nav", FALSE, TRUE)

\* The host delivers a structural mutation in this step.
HostMutates ==
    \E i \in 1..NumNavLinks, id \in 0..MaxTimerId, callout \in Callouts :
        HostMutation(i, links'[i], id, callout)

\* C17: a throttle window that ended by its timer firing has had exactly one
\* pass, and from then on this._throttleTimer is null and no throttle timer
\* is pending, whether the pass returned or threw; the next batch delivered
\* to the connected observer starts a new timer.
C17_FiredThenIdle ==
    /\ [](winState = "fired" =>
            (winPasses = 1 /\ throttleTimer = 0 /\ PendingThrottle = {}))
    /\ [][(winState = "fired" /\ "dom" \in connected /\ HostMutates) =>
            (winState' = "open" /\ throttleTimer' # 0
               /\ PendingThrottle' = {Timer(throttleTimer', "throttle")})]_vars

\* The pass of the last throttle callback threw, and a later batch has
\* started a new timer.
C17_Witness ==
    /\ passFailed
    /\ winState = "open"
    /\ throttleTimer # 0
    /\ PendingThrottle = {Timer(throttleTimer, "throttle")}

\* C18: every mutation batch delivered to the connected observer falls into
\* a throttle window with a pending timer, and every such window ends with
\* its timer firing, that is with a pass that starts after all mutations of
\* the window, unless teardown comes first.
C18_MutationsReHighlighted ==
    /\ [][("dom" \in connected /\ HostMutates) =>
            (winState' = "open" /\ PendingThrottle' # {})]_vars
    /\ (winState = "open") ~> (winState = "fired" \/ disposed)

\* A window in which a batch was dropped has ended with a pass that marked
\* the anchor rendered meanwhile; nothing was torn down.
C18_Witness ==
    /\ ~disposed
    /\ "dom" \in connected
    /\ winState = "fired"
    /\ winBatches = 2
    /\ ~passFailed
    /\ links[1] = Link(HrefSiteA, "hubNav", TRUE, FALSE)

\* C19: after a pass, two selected links whose targets differ only in
\* letter case carry the same markers.
C19_CaseInsensitive ==
    passes >= 1 =>
        \A i, j \in DOMAIN links :
            (/\ IsCandidate(links[i])
             /\ IsCandidate(links[j])
             /\ toLowerCase(links[i].href) = toLowerCase(links[j].href))
            => (links[i].cur = links[j].cur /\ links[i].oth = links[j].oth)

\* C20: the controller writes nothing to the host DOM besides the two
\* marker classes of the anchors and its one <style> element.
C20_OnlyMarkersAndStyle == otherWrites = {}

-----------------------------------------------------------------------------
(* SpecRace: a navigation-triggered and a mutation-triggered pass are both  *)
(* pending; the DOM and the URL stay as they are                            *)

\* The state after a startup that found no configuration file, a navigation
\* and one mutation batch: the navigation handler's timer and the throttle
\* timer are pending.  The anchors may carry markers of the page shown
\* before the navigation.
InitRace ==
    /\ build \in Builds
    /\ absoluteUrl \in PageUrls
    /\ links \in [1..NumNavLinks -> NavLinks]
    /\ passes = 0
    /\ beforeFirst = links
    /\ afterFirst = <<>>
    /\ pc = "done"
    /\ config = DEFAULT_NAV_CONFIG
    /\ loadOutcome = "notOk"
    /\ configBefore = DEFAULT_NAV_CONFIG
    /\ lastBody = InvalidBody
    /\ loads = 1
    /\ styleElement = 1
    /\ headStyles = {[id |-> 1, css |-> DEFAULT_NAV_CONFIG]}
    /\ stylesCreated = 1
    /\ disposed = FALSE
    /\ observer = 1
    /\ connected = (IF build = "part_000" THEN {"dom", "mega"} ELSE {"dom"})
    /\ subscribed = TRUE
    /\ initSteps = OnInitSteps(build, "notOk")
    /\ initPromise = "fulfilled"
    /\ \E nav \in 1..MaxTimerId, throttle \in 1..MaxTimerId :
          /\ nav # throttle
          /\ timers = {Timer(nav, "nav"), Timer(throttle, "throttle")}
          /\ throttleTimer = throttle
          /\ winTimer = throttle
    /\ winState = "open"
    /\ winBatches = 1
    /\ winPasses = 0
    /\ disposeFaults = {}
    /\ passFailed = FALSE
    /\ otherWrites = {}
    /\ ExIdle

\* The two timer callbacks, in either order.
NextRace ==
    \/ \E t \in timers : NavTimerFires(t)
    \/ \E t \in timers : ThrottleTimerFires(t, FALSE)

SpecRace == InitRace /\ [][NextRace]_vars

-----------------------------------------------------------------------------
(* C21 .. C23 *)

\* The markers a link has once a pass has run on the page url, given what
\* it was when both passes were pending: its own when the url has no site
\* or no selector matches it, else the markers its target gives it.
MarkersAfterPass(before, url) ==
    LET cs == SiteIdOf(StripTrailingSlash(url))
    IN IF cs = <<>> \/ ~IsCandidate(before) THEN <<before.cur, before.oth>>
       ELSE ExpectedMarkers(before.href, cs)

\* C21: with a navigation-triggered and a mutation-triggered pass pending
\* and the DOM and URL unchanged, whichever pass runs first, the links are
\* the same after the first pass and the same after both: every link has
\* the markers its target and the current URL give it.
C21_RaceOrderIrrelevant ==
    Cardinality(timers) < 2 =>
        \A i \in DOMAIN links :
            /\ links[i].href = beforeFirst[i].href
            /\ <<links[i].cur, links[i].oth>>
                  = MarkersAfterPass(beforeFirst[i], absoluteUrl)

\* Both passes have run on site b; the anchor to site a, which carried the
\* current-site marker while both were pending, carries other-site.
C21_Witness ==
    /\ timers = {}
    /\ winState = "fired"
    /\ absoluteUrl = UrlSiteB
    /\ beforeFirst[1] = Link(HrefSiteA, "hubNav", TRUE, FALSE)
    /\ links[1] = Link(HrefSiteA, "hubNav", FALSE, TRUE)

\* C22: the step of onDispose leaves no MutationObserver of the controller
\* observing document.body.
C22_AllObserversReleased ==
    [][onDispose({}) => connected' = {}]_vars

\* C23: in every state after onDispose the controller has no style element
\* in the document, no connected observer and no pending timer.
C23_NothingOwnedAfterDispose ==
    disposed =>
        /\ styleElement = 0
        /\ headStyles = {}
        /\ connected = {}
        /\ timers = {}

====
